---- MODULE Spec2Model ----
(***************************************************************************)
(* Model of the attestation example scripts: the create scripts            *)
(* (scripts/createOwnership.ts, the create-review script) and the          *)
(* checkAuthenticationAuthV2 helper they call.  One run of a create script *)
(* is a sequence of steps, one per suspension point (await) of the code;   *)
(* the contracts, the proof service and the RPC node are external and      *)
(* answer nondeterministically.                                            *)
(*                                                                         *)
(* Strings whose content the code inspects (schema id, CLI arguments) are  *)
(* sequences of one-character strings.                                     *)
(***************************************************************************)
EXTENDS Integers, Sequences, FiniteSets, TLC

(* ------------------------------ bounds --------------------------------- *)
MaxId == 2          \* identity ids are 0..MaxId, 0 = unbound
MaxRuns == 2        \* consecutive script runs against the same chain
MaxLogs == 2        \* logs in a transaction receipt
MaxAttId == 2       \* attestation ids emitted by the registry are 1..MaxAttId
MaxMissing == 1     \* environment variables that may be unset at once
MaxPages == 3       \* totalPages reported by the attestations API

(* -------------------------- program constants -------------------------- *)
SchemaIdLength == 66
PageSize == 20
AddressLength == 42
HashLength == 66

(* ------------------------------ strings -------------------------------- *)
RECURSIVE Rep(_, _)
Rep(c, n) == IF n = 0 THEN <<>> ELSE <<c>> \o Rep(c, n - 1)

HexChars == {"0", "1", "2", "3", "4", "5", "6", "7", "8", "9",
             "a", "b", "c", "d", "e", "f", "A", "B", "C", "D", "E", "F"}
WhiteSpace == {" "}

\* an absent CLI option (undefined in parseArgs().values)
Undefined == <<"undefined">>

\* String.prototype.startsWith("0x")
StartsWith0x(s) == Len(s) >= 2 /\ s[1] = "0" /\ s[2] = "x"

\* String.prototype.trim()
RECURSIVE TrimLeft(_)
TrimLeft(s) == IF s # <<>> /\ Head(s) \in WhiteSpace THEN TrimLeft(Tail(s)) ELSE s
RECURSIVE TrimRight(_)
TrimRight(s) ==
    IF s # <<>> /\ s[Len(s)] \in WhiteSpace
    THEN TrimRight(SubSeq(s, 1, Len(s) - 1)) ELSE s
Trim(s) == TrimRight(TrimLeft(s))

\* a || b on strings: undefined and "" are falsy
OrDefault(a, b) == IF a = Undefined \/ a = <<>> THEN b ELSE a

DigitVal(c) == CASE c = "0" -> 0 [] c = "1" -> 1 [] c = "2" -> 2 [] c = "3" -> 3
                 [] c = "4" -> 4 [] c = "5" -> 5 [] c = "6" -> 6 [] c = "7" -> 7
                 [] c = "8" -> 8 [] c = "9" -> 9
\* the uint256 the ABI coder sends for a decimal string
RECURSIVE ToBigInt(_)
ToBigInt(s) == IF s = <<>> THEN 0
               ELSE 10 * ToBigInt(SubSeq(s, 1, Len(s) - 1)) + DigitVal(s[Len(s)])

ZeroAddress == <<"0", "x">> \o Rep("0", AddressLength - 2)
ZeroHash == <<"0", "x">> \o Rep("0", HashLength - 2)

\* the signer's address (wallet.getAddress())
SignerAddress == <<"0", "x">> \o Rep("0", AddressLength - 3) \o <<"5">>
OtherAddress == <<"0", "x">> \o Rep("0", AddressLength - 3) \o <<"9">>

(* ------------------------------ inputs --------------------------------- *)
\* values of the schema environment variable
ValidSchemaId == <<"0", "x">> \o Rep("a", SchemaIdLength - 2)
NonHexSchemaId == <<"0", "x">> \o Rep("z", SchemaIdLength - 2)
ShortSchemaId == <<"0", "x", "1", "2", "3", "4">>
NoPrefixSchemaId == Rep("a", SchemaIdLength)
LongSchemaId == <<"0", "x">> \o Rep("a", SchemaIdLength - 1)
SchemaIds == {ValidSchemaId, NonHexSchemaId, ShortSchemaId, NoPrefixSchemaId,
              LongSchemaId}

\* values of the CLI options --recipientDid, --recipientId, --recipientAddress
RecipientDids == {Undefined, <<>>, <<" ">>, <<"d", "i", "d", ":", "x">>}
RecipientIds == {Undefined, <<"0">>, <<"0", "0">>, <<"7">>}
RecipientAddresses == {Undefined, ZeroAddress, OtherAddress}
CliArgs == [recipientDid : RecipientDids, recipientId : RecipientIds,
            recipientAddress : RecipientAddresses]

\* values of the create-review options --stars and --comment
StarsValues == {Undefined, <<"5">>, <<"3", "0", "0">>}
CommentValues == {Undefined, <<>>, <<"o", "k">>}
ReviewData == [stars : StarsValues, comment : CommentValues]
\* create-ownership has neither option
NoCliData == [stars |-> Undefined, comment |-> Undefined]
ReviewCliArgs == {a \in CliArgs : /\ a.recipientDid \in {Undefined, <<"d", "i", "d", ":", "x">>}
                                  /\ a.recipientId \in {Undefined, <<"7">>}
                                  /\ a.recipientAddress = Undefined}

(* ----------------------------- environment ----------------------------- *)
Scripts == {"ownership", "review", "revoke", "list"}
CreateScripts == {"ownership", "review"}

SchemaVar(sc) == IF sc = "ownership" THEN "OWNERSHIP_ATTESTATION_SCHEMA"
                 ELSE "REVIEW_ATTESTATION_SCHEMA"

\* the variables checkRequiredParams tests, in the order it tests them
RequiredParams(sc) ==
    CASE sc \in CreateScripts ->
           <<"PRIVATE_KEY", "BILLIONS_TESTNET_RPC_URL", "STATE_CONTRACT_ADDRESS",
             "AUTH_VERIFIER_CONTRACT_ADDRESS", "ATTESTATION_REGISTRY_CONTRACT_ADDRESS",
             "SCHEMA_REGISTRY_CONTRACT_ADDRESS", "CHAIN_ID", "RHS_URL", "CIRCUITS_PATH",
             SchemaVar(sc)>>
      [] sc = "revoke" ->
           <<"PRIVATE_KEY", "BILLIONS_TESTNET_RPC_URL",
             "ATTESTATION_REGISTRY_CONTRACT_ADDRESS", "CHAIN_ID">>
      [] sc = "list" -> <<>>

\* the variables a script reads after its start-up check
UsedEnv(sc) ==
    CASE sc \in CreateScripts -> {RequiredParams(sc)[i] : i \in 1..Len(RequiredParams(sc))}
      [] sc = "revoke" -> {"PRIVATE_KEY", "BILLIONS_TESTNET_RPC_URL",
                           "ATTESTATION_REGISTRY_CONTRACT_ADDRESS"}
      [] sc = "list" -> {"BILLIONS_ATTESTATIONS_API_URL", "REVIEW_ATTESTATION_SCHEMA"}

EnvNames(sc) == UsedEnv(sc) \cup {RequiredParams(sc)[i] : i \in 1..Len(RequiredParams(sc))}
\* the environments a script is started in: at most MaxMissing names unset
Environments(sc) ==
    {EnvNames(sc) \ M : M \in {X \in SUBSET EnvNames(sc) : Cardinality(X) <= MaxMissing}}

\* checkRequiredParams: the first variable that is unset, "" when none is
MissingParam(ps, e) ==
    IF \E i \in 1..Len(ps) : ps[i] \notin e
    THEN ps[CHOOSE i \in 1..Len(ps) : ps[i] \notin e /\ \A j \in 1..(i - 1) : ps[j] \in e]
    ELSE ""

NotDefined(name) == <<"is not defined in .env file", name>>

(* --------------------------- attestation data -------------------------- *)
IsDecimal(s) == s # <<>> /\ \A i \in 1..Len(s) : s[i] \in {"0", "1", "2", "3", "4", "5", "6", "7", "8", "9"}
\* the ABI coder accepts a uint8 value
IsUint8(st) == st # Undefined /\ IsDecimal(st) /\ ToBigInt(st) <= 255
\* AbiCoder.encode(["uint8", "string"], [stars, comment]) does not throw
EncodableReview(d) == IsUint8(d.stars) /\ d.comment # Undefined

\* zero bytes up to the next multiple of 32
Padding(n) == Rep("NUL", (32 - (n % 32)) % 32)
\* AbiCoder.encode(["uint8", "string"], [stars, comment]): the uint8 word, the
\* offset of the string, its length, its bytes padded to a word
EncodeReview(stars, comment) ==
    <<ToBigInt(stars), 64, Len(comment)>> \o comment \o Padding(Len(comment))
\* AbiCoder.encode(["bytes"], ["0x"]): offset and length of the empty bytes
EncodeOwnership == <<32, 0>>

\* AbiCoder.decode(["uint8", "string"], data) does not throw
DecodableReview(data) ==
    /\ Len(data) >= 3
    /\ data[1] \in 0..255
    /\ data[2] = 64
    /\ Len(data) >= 3 + data[3]
\* AbiCoder.decode(["uint8", "string"], data)
DecodeReview(data) == <<data[1], SubSeq(data, 4, 3 + data[3])>>
\* AbiCoder.decode(["bytes"], data)
DecodableOwnership(data) == Len(data) >= 2 /\ data[1] = 32 /\ Len(data) >= 2 + data[2]
DecodeOwnership(data) == <<SubSeq(data, 3, 2 + data[2])>>

\* data a registry may hold that is not what any run of the model submits
ForeignData(sc) == IF sc = "review" THEN <<1, 64, 1, "x">> \o Padding(1) ELSE <<32, 1, "x">>

Ids == 0..MaxId
\* ids of locally created identities (never 0)
CandidateIds == 1..MaxId

(* --------------------------- DID conversions --------------------------- *)
DidPrefix == "did:iden3:billions:test"
\* DID.parseFromId(Id.fromBigInt(id))
DIDFromId(id) == <<DidPrefix, id>>
\* DID.idFromDID(did).bigInt()
IdFromDID(did) == did[2]

(* ----------------------------- receipt logs ---------------------------- *)
\* a log is what interface.parseLog makes of it: it throws (decodes = FALSE)
\* or yields an event name and arguments
UndecodableLog == [decodes |-> FALSE, name |-> "", arg0 |-> 0]
OtherEventLog == [decodes |-> TRUE, name |-> "AttestationRevoked", arg0 |-> 1]
RecordedLog(i) == [decodes |-> TRUE, name |-> "AttestationRecorded", arg0 |-> i]
LogKinds == {UndecodableLog, OtherEventLog} \cup {RecordedLog(i) : i \in 1..MaxAttId}
SeqsUpTo(S, n) == UNION {[1..k -> S] : k \in 0..n}
LogLists == SeqsUpTo(LogKinds, MaxLogs)

\* variant: the find predicate forgets the event name
FindFirstDecoded(ls) ==
    IF \E i \in 1..Len(ls) : ls[i].decodes
    THEN CHOOSE i \in 1..Len(ls) :
            ls[i].decodes /\ \A j \in 1..(i - 1) : ~ls[j].decodes
    ELSE 0

\* variant: the last matching log is taken
FindLastRecorded(ls) ==
    IF \E i \in 1..Len(ls) : ls[i].decodes /\ ls[i].name = "AttestationRecorded"
    THEN CHOOSE i \in 1..Len(ls) :
            /\ ls[i].decodes /\ ls[i].name = "AttestationRecorded"
            /\ \A j \in (i + 1)..Len(ls) :
                    ~(ls[j].decodes /\ ls[j].name = "AttestationRecorded")
    ELSE 0

\* the predicate given to receipt.logs.find
IsAttestationRecorded(log) == log.decodes /\ log.name = "AttestationRecorded"
\* receipt.logs.find(...): index of the first match, 0 for undefined
FindRecorded(ls) ==
    IF \E i \in 1..Len(ls) : IsAttestationRecorded(ls[i])
    THEN CHOOSE i \in 1..Len(ls) :
            /\ IsAttestationRecorded(ls[i])
            /\ \A j \in 1..(i - 1) : ~IsAttestationRecorded(ls[j])
    ELSE 0

(* ------------------------------- state --------------------------------- *)
VARIABLES
    pc,             \* suspension point of the running script, or exit0 / exit1
    run,            \* number of the current script run
    results,        \* summaries of the finished runs
    binding,        \* AuthVerifier: id bound to the signer's address (0 = none)
    schemaId,       \* the schema id the run uses
    recipient,      \* recipient fields after defaulting
    schemaRecord,   \* <<record>> once schemaRegistry.getSchema answered
    userDID,        \* DID of the identity created in this run
    userId,         \* checkAuthenticationAuthV2's userId
    currentUserId,  \* checkAuthenticationAuthV2's currentUserId
    idReads,        \* values returned by getIdByAddress in this run, in order
    calls,          \* network calls issued in this run, in order
    error,          \* messages of the error the run failed with, outermost first
    returned,       \* <<result>> once checkAuthenticationAuthV2 returned
    request,        \* <<request>> once recordAttestation was submitted
    logs,           \* logs of the recordAttestation receipt
    attestationId,  \* id extracted from the AttestationRecorded event
    faults,         \* calls of this run that the collaborator answered with a failure
    script,         \* which script the process runs
    env,            \* names of the environment variables that are set
    cliData,        \* create-review: the --stars and --comment options
    authMethodExists, \* <<answer>> once authVerifier.authMethodExists answered
    stored,         \* <<storedAttestation>> once getAttestation answered
    decoded,        \* <<values>> decoded from storedAttestation.data
    readBacks,      \* read-back calls with the attestation id they were given
    revokeId,       \* revoke: the --id option
    requests,       \* list-reviews: the GET requests issued, in order
    responses,      \* list-reviews: the response bodies received, in order
    reviews,        \* list-reviews: getReviewsForAgent's reviews array
    totalPages,     \* list-reviews: totalPages of the page-1 response
    page,           \* list-reviews: the loop variable page
    output,         \* list-reviews: <<what main printed>>
    agentDid,       \* list-reviews: the --did option
    pagedTotalPages, \* list-reviews: totalPages of the latest later-page response
    revoked         \* revoke: the ids revokeAttestation was called with

\* state of the list-reviews and revoke scripts
listVars == <<requests, responses, reviews, totalPages, page, output, agentDid,
             pagedTotalPages>>
\* state that no step of a create script changes
fixedVars == <<script, env, revokeId, revoked, listVars>>
\* state of a create script
createVars == <<run, results, binding, schemaId, recipient, schemaRecord, userDID, userId,
                currentUserId, idReads, returned, request, logs, attestationId,
                cliData, authMethodExists, stored, decoded, readBacks>>

vars == <<pc, calls, error, faults, script, env, revokeId, revoked, listVars, createVars>>

NoRecipient == [did |-> <<>>, iden3Id |-> <<>>, ethereumAddress |-> <<>>]
NoDID == <<DidPrefix, 0>>

RunInit ==
    /\ pc = "main"
    /\ schemaId = <<>>
    /\ recipient = NoRecipient
    /\ schemaRecord = <<>>
    /\ userDID = NoDID
    /\ userId = 0
    /\ currentUserId = 0
    /\ idReads = <<>>
    /\ calls = <<>>
    /\ error = <<>>
    /\ returned = <<>>
    /\ request = <<>>
    /\ logs = <<>>
    /\ attestationId = 0
    /\ faults = {}
    /\ cliData = NoCliData
    /\ authMethodExists = <<>>
    /\ stored = <<>>
    /\ decoded = <<>>
    /\ readBacks = <<>>
    /\ revokeId = Undefined
    /\ requests = <<>>
    /\ responses = <<>>
    /\ reviews = <<>>
    /\ totalPages = <<>>
    /\ page = 0
    /\ output = <<>>
    /\ agentDid = Undefined
    /\ pagedTotalPages = <<>>
    /\ revoked = <<>>

Init ==
    /\ run = 1
    /\ results = <<>>
    /\ script \in Scripts
    /\ env \in Environments(script)
    /\ binding \in IF script \in CreateScripts THEN Ids ELSE {0}
    /\ RunInit

(* ------------------------- decisions of the code ----------------------- *)
\* variant: the length test is dropped
SchemaFormatPrefixOnly(s) == StartsWith0x(s)

\* !schemaId.startsWith("0x") || schemaId.length !== 66, negated
SchemaFormatOk(s) == StartsWith0x(s) /\ Len(s) = SchemaIdLength

\* the recipient defaults: x || "0", x || "", x || ethers.ZeroAddress
DefaultRecipient(a) ==
    [did |-> OrDefault(a.recipientDid, <<>>),
     iden3Id |-> OrDefault(a.recipientId, <<"0">>),
     ethereumAddress |-> OrDefault(a.recipientAddress, ZeroAddress)]

\* the condition under which main throws "One of the recipient information
\* is required"
RecipientMissing(r) ==
    /\ Trim(r.did) = <<>>
    /\ r.iden3Id = <<"0">>
    /\ r.ethereumAddress = ZeroAddress

\* variant: the record id is compared with a short zero
SchemaNotFoundShortZero(rec) == rec.id = <<"0", "x", "0">>

\* schemaRecord.id === "0x00..00"
SchemaNotFound(rec) == rec.id = ZeroHash

\* variant: authentication is attempted on every run
AuthRequiredAlways(cur, uid) == TRUE
\* variant: only an unbound address is authenticated
AuthRequiredZeroOnly(cur, uid) == cur = 0
\* currentUserId === 0n || currentUserId != userId
AuthRequired(cur, uid) == cur = 0 \/ cur # uid

\* variant: the answer of authMethodExists is not tested
AuthMethodMissingNever(exists) == FALSE

\* !authMethodExists
AuthMethodMissing(exists) == ~exists

\* variant: the still-zero check is dropped
StillUnauthenticatedNever(cur) == FALSE

\* variant: only the inline copy of the create-review script makes the check
StillUnauthenticatedInReview(cur) == script = "review" /\ cur = 0

\* currentUserId === 0n after the authentication transaction
StillUnauthenticated(cur) == cur = 0

\* else branch: userId = currentUserId when their strings differ
ReconciledUserId(cur, uid) == IF cur # uid THEN cur ELSE uid

\* catch (methodError): rethrows a fixed message, the cause is only logged
CatchMethodError(cause) == <<"ethIdentity auth method not registered or not configured">>
\* catch (authError): "Could not authenticate: " + authError
CatchAuthError(e) == <<"Could not authenticate">> \o e
\* catch (error): "User authentication failed. ... Error: " + error
CatchError(e) == <<"User authentication failed">> \o e
\* an error thrown inside the innermost try block
InnerFailure(cause) == CatchError(CatchAuthError(CatchMethodError(cause)))

(* ------------------------------ helpers -------------------------------- *)
Count(seq, x) == Cardinality({i \in 1..Len(seq) : seq[i] = x})
Called(op) == \E i \in 1..Len(calls) : calls[i] = op

\* variant: the catch handler exits with 0
ExitZero(e) == pc' = "exit0" /\ error' = e
\* main().catch: console.error(error); process.exit(1)
Exit1(e) == pc' = "exit1" /\ error' = e
Issue(op) == calls' = Append(calls, op)
Fault(op) == faults' = faults \cup {op}

\* variant: the DID is derived from the id read from the AuthVerifier
ReturnDidOfRead(uid) ==
    /\ returned' = <<[userId |-> uid, userDid |-> DIDFromId(currentUserId'),
                      signerAddress |-> SignerAddress]>>
    /\ pc' = "recordAttestation"

\* return { userId, userDid, attestationRegistry, signerAddress }; the caller
\* goes on to its next await, recordAttestation
Return(uid) ==
    /\ returned' = <<[userId |-> uid, userDid |-> DIDFromId(uid),
                      signerAddress |-> SignerAddress]>>
    /\ pc' = "recordAttestation"

\* variant: the catch block logs the error and does not rethrow it
AuthFailureSwallowed(e) == Return(userId) /\ error' = error

\* what a failure inside checkAuthenticationAuthV2's try blocks leads to: the
\* rethrown error leaves the function and main, and the process exits with 1
AuthFailure(e) == Exit1(e) /\ UNCHANGED returned

(* ------------------------------ actions -------------------------------- *)
\* the inputs of a create run: the schema variable's value and the options
CreateInputs ==
    IF script = "review"
    THEN [sid : SchemaIds, args : ReviewCliArgs, data : ReviewData]
    ELSE [sid : SchemaIds, args : CliArgs, data : {NoCliData}]

\* main of a create script up to its first await: checkRequiredParams, the
\* recipient defaults and check, then the schema format check that opens
\* checkAuthenticationAuthV2
Main(I) ==
    /\ pc = "main"
    /\ script \in CreateScripts
    /\ IF MissingParam(RequiredParams(script), env) # ""
       THEN /\ Exit1(NotDefined(MissingParam(RequiredParams(script), env)))
            /\ UNCHANGED <<schemaId, recipient, cliData>>
       ELSE \E in \in I :
            LET r == DefaultRecipient(in.args) IN
            /\ schemaId' = in.sid
            /\ recipient' = r
            /\ cliData' = in.data
            /\ IF RecipientMissing(r)
               THEN Exit1(<<"One of the recipient information is required">>)
               ELSE IF ~SchemaFormatOk(in.sid)
               THEN Exit1(<<"Invalid schema Id format">>)
               ELSE pc' = "createIdentity" /\ error' = error
    /\ UNCHANGED <<fixedVars, authMethodExists, stored, decoded, readBacks>>
    /\ UNCHANGED <<run, results, binding, schemaRecord, userDID, userId, currentUserId,
                   idReads, calls, returned, request, logs, attestationId, faults>>

\* wallets, circuit storage, proof service and identityWallet.createIdentity
CreateIdentity ==
    /\ pc = "createIdentity"
    /\ Issue("createIdentity")
    /\ \/ /\ Fault("createIdentity")
          /\ Exit1(<<"createIdentity failed">>)
          /\ UNCHANGED userDID
       \/ /\ \E c \in CandidateIds : userDID' = DIDFromId(c)
          /\ pc' = "getSchema"
          /\ UNCHANGED <<error, faults>>
    /\ UNCHANGED <<fixedVars, cliData, authMethodExists, stored, decoded, readBacks>>
    /\ UNCHANGED <<run, results, binding, schemaId, recipient, schemaRecord, userId,
                   currentUserId, idReads, returned, request, logs, attestationId>>

\* schemaRegistry.getSchema(schemaId) and the schema-exists check.  The ABI
\* coder rejects a bytes32 argument that is not hex, so the call then fails.
GetSchema ==
    /\ pc = "getSchema"
    /\ Issue("getSchema")
    /\ \/ /\ Fault("getSchema")
          /\ Exit1(<<"getSchema failed">>)
          /\ UNCHANGED schemaRecord
       \/ /\ \A i \in 3..Len(schemaId) : schemaId[i] \in HexChars
          /\ \E rec \in {[id |-> ZeroHash], [id |-> schemaId]} :
                /\ schemaRecord' = <<rec>>
                /\ IF SchemaNotFound(rec)
                   THEN Exit1(<<"Schema not found">>)
                   ELSE pc' = "getDefaultIdType" /\ error' = error
          /\ UNCHANGED faults
    /\ UNCHANGED <<fixedVars, cliData, authMethodExists, stored, decoded, readBacks>>
    /\ UNCHANGED <<run, results, binding, schemaId, recipient, userDID, userId,
                   currentUserId, idReads, returned, request, logs, attestationId>>

\* wallet.getAddress(), state.getDefaultIdType(), then
\* userId = DID.idFromDID(userDID).bigInt()
GetDefaultIdType ==
    /\ pc = "getDefaultIdType"
    /\ Issue("getDefaultIdType")
    /\ \/ /\ Fault("getDefaultIdType")
          /\ Exit1(<<"getDefaultIdType failed">>)
          /\ UNCHANGED userId
       \/ /\ userId' = IdFromDID(userDID)
          /\ pc' = "getIdByAddress"
          /\ UNCHANGED <<error, faults>>
    /\ UNCHANGED <<fixedVars, cliData, authMethodExists, stored, decoded, readBacks>>
    /\ UNCHANGED <<run, results, binding, schemaId, recipient, schemaRecord, userDID, currentUserId,
                   idReads, returned, request, logs, attestationId>>

\* the first authVerifier.getIdByAddress(signerAddress) and the branch on it
GetIdByAddress ==
    /\ pc = "getIdByAddress"
    /\ Issue("getIdByAddress")
    /\ \/ /\ Fault("getIdByAddress")
          /\ Exit1(<<"getIdByAddress failed">>)
          /\ UNCHANGED <<currentUserId, idReads, userId, returned>>
       \/ /\ currentUserId' = binding
          /\ idReads' = Append(idReads, binding)
          /\ IF AuthRequired(binding, userId)
             THEN /\ pc' = "generateAuthProof"
                  /\ UNCHANGED <<userId, returned>>
             ELSE /\ userId' = ReconciledUserId(binding, userId)
                  /\ Return(userId')
          /\ UNCHANGED <<error, faults>>
    /\ UNCHANGED <<fixedVars, cliData, authMethodExists, stored, decoded, readBacks>>
    /\ UNCHANGED <<run, results, binding, schemaId, recipient, schemaRecord, userDID, request, logs,
                   attestationId>>

\* calcChallengeAuthV2, proofService.generateAuthProof, prepare and pack
GenerateAuthProof ==
    /\ pc = "generateAuthProof"
    /\ Issue("generateAuthProof")
    /\ \/ /\ Fault("generateAuthProof")
          /\ AuthFailure(CatchError(<<"generateAuthProof failed">>))
       \/ /\ pc' = "authMethodExists"
          /\ UNCHANGED <<error, faults, returned>>
    /\ UNCHANGED <<fixedVars, cliData, authMethodExists, stored, decoded, readBacks>>
    /\ UNCHANGED <<run, results, binding, schemaId, recipient, schemaRecord, userDID, userId,
                   currentUserId, idReads, request, logs, attestationId>>

\* authVerifier.authMethodExists("authV2")
AuthMethodExists ==
    /\ pc = "authMethodExists"
    /\ Issue("authMethodExists")
    /\ \/ /\ Fault("authMethodExists")
          /\ AuthFailure(InnerFailure(<<"authMethodExists failed">>))
          /\ UNCHANGED authMethodExists
       \/ /\ \E exists \in BOOLEAN :
                /\ authMethodExists' = <<exists>>
                /\ IF AuthMethodMissing(exists)
                   THEN AuthFailure(InnerFailure(<<"authV2 auth method not found">>))
                   ELSE pc' = "submitResponse" /\ UNCHANGED <<error, returned>>
          /\ UNCHANGED faults
    /\ UNCHANGED <<fixedVars, cliData, stored, decoded, readBacks>>
    /\ UNCHANGED <<run, results, binding, schemaId, recipient, schemaRecord, userDID, userId,
                   currentUserId, idReads, request, logs, attestationId>>

\* variant: the inclusion of the authentication transaction is not awaited
SubmitResponseNoWait ==
    /\ pc = "submitResponse"
    /\ Issue("submitResponse")
    /\ \/ /\ Fault("submitResponse")
          /\ AuthFailure(InnerFailure(<<"submitResponse failed">>))
       \/ /\ pc' = "getIdByAddress2"
          /\ UNCHANGED <<error, faults, returned>>
    /\ UNCHANGED <<fixedVars, cliData, authMethodExists, stored, decoded, readBacks>>
    /\ UNCHANGED <<run, results, binding, schemaId, recipient, schemaRecord, userDID, userId,
                   currentUserId, idReads, request, logs, attestationId>>

\* authVerifier.submitResponse(authResponse, [], "0x")
SubmitResponse ==
    /\ pc = "submitResponse"
    /\ Issue("submitResponse")
    /\ \/ /\ Fault("submitResponse")
          /\ AuthFailure(InnerFailure(<<"submitResponse failed">>))
       \/ /\ pc' = "authTx.wait"
          /\ UNCHANGED <<error, faults, returned>>
    /\ UNCHANGED <<fixedVars, cliData, authMethodExists, stored, decoded, readBacks>>
    /\ UNCHANGED <<run, results, binding, schemaId, recipient, schemaRecord, userDID, userId,
                   currentUserId, idReads, request, logs, attestationId>>

\* authTx.wait(): the transaction reverts, or it is included and the
\* AuthVerifier leaves the signer's address bound to some id
AuthTxWait ==
    /\ pc = "authTx.wait"
    /\ Issue("authTx.wait")
    /\ \/ /\ Fault("authTx.wait")
          /\ AuthFailure(InnerFailure(<<"authTx.wait failed">>))
          /\ UNCHANGED binding
       \/ /\ binding' \in Ids
          /\ pc' = "getIdByAddress2"
          /\ UNCHANGED <<error, faults, returned>>
    /\ UNCHANGED <<fixedVars, cliData, authMethodExists, stored, decoded, readBacks>>
    /\ UNCHANGED <<run, results, schemaId, recipient, schemaRecord, userDID, userId, currentUserId,
                   idReads, request, logs, attestationId>>

\* the second getIdByAddress, the still-zero check and the return
GetIdByAddress2 ==
    /\ pc = "getIdByAddress2"
    /\ Issue("getIdByAddress")
    /\ \/ /\ Fault("getIdByAddress")
          /\ AuthFailure(InnerFailure(<<"getIdByAddress failed">>))
          /\ UNCHANGED <<currentUserId, idReads>>
       \/ /\ currentUserId' = binding
          /\ idReads' = Append(idReads, binding)
          /\ IF StillUnauthenticated(binding)
             THEN AuthFailure(InnerFailure(<<"user ID is still 0 after authentication">>))
             ELSE Return(userId) /\ error' = error
          /\ UNCHANGED faults
    /\ UNCHANGED <<fixedVars, cliData, authMethodExists, stored, decoded, readBacks>>
    /\ UNCHANGED <<run, results, binding, schemaId, recipient, schemaRecord, userDID, userId,
                   request, logs, attestationId>>

\* the argument of attestationRegistry.recordAttestation as the ABI coder
\* sends it (iden3Id is a uint256)
AttestationRequest(ret, r) ==
    [schemaId |-> schemaId,
     attester |-> [did |-> ret.userDid, iden3Id |-> ret.userId,
                   ethereumAddress |-> ret.signerAddress],
     recipient |-> [did |-> r.did, iden3Id |-> ToBigInt(r.iden3Id),
                    ethereumAddress |-> r.ethereumAddress],
     expirationTime |-> 0,
     revocable |-> TRUE,
     refId |-> ZeroHash,
     data |-> IF script = "review" THEN EncodeReview(cliData.stars, cliData.comment)
              ELSE EncodeOwnership]

\* the encoding of the data, which precedes the call, does not throw
Encodable == script = "review" => EncodableReview(cliData)
\* the decoding of storedAttestation.data
Decodable(data) == IF script = "review" THEN DecodableReview(data)
                   ELSE DecodableOwnership(data)
Decode(data) == IF script = "review" THEN DecodeReview(data) ELSE DecodeOwnership(data)

\* variant: the registry is consulted and an equal earlier request is not
\* submitted again
RecordAttestationOnce ==
    /\ pc = "recordAttestation"
    /\ IF ~Encodable
       THEN /\ Exit1(<<"encode failed">>)
            /\ UNCHANGED <<request, calls, faults>>
       ELSE IF \E k \in 1..Len(results) :
                    results[k].request = <<AttestationRequest(returned[1], recipient)>>
       THEN /\ request' = <<AttestationRequest(returned[1], recipient)>>
            /\ pc' = "exit0"
            /\ UNCHANGED <<calls, error, faults>>
       ELSE /\ Issue("recordAttestation")
            /\ \/ /\ Fault("recordAttestation")
                  /\ Exit1(<<"recordAttestation failed">>)
                  /\ UNCHANGED request
               \/ /\ request' = <<AttestationRequest(returned[1], recipient)>>
                  /\ pc' = "tx.wait"
                  /\ UNCHANGED <<error, faults>>
    /\ UNCHANGED <<fixedVars, cliData, authMethodExists, stored, decoded, readBacks>>
    /\ UNCHANGED <<run, results, binding, schemaId, recipient, schemaRecord, userDID, userId,
                   currentUserId, idReads, returned, logs, attestationId>>

\* AbiCoder.encode of the data, then attestationRegistry.recordAttestation({...})
RecordAttestation ==
    /\ pc = "recordAttestation"
    /\ IF ~Encodable
       THEN /\ Exit1(<<"encode failed">>)
            /\ UNCHANGED <<request, calls, faults>>
       ELSE /\ Issue("recordAttestation")
            /\ \/ /\ Fault("recordAttestation")
                  /\ Exit1(<<"recordAttestation failed">>)
                  /\ UNCHANGED request
               \/ /\ request' = <<AttestationRequest(returned[1], recipient)>>
                  /\ pc' = "tx.wait"
                  /\ UNCHANGED <<error, faults>>
    /\ UNCHANGED <<fixedVars, cliData, authMethodExists, stored, decoded, readBacks>>
    /\ UNCHANGED <<run, results, binding, schemaId, recipient, schemaRecord, userDID, userId,
                   currentUserId, idReads, returned, logs, attestationId>>

\* variant: a failed inclusion is compensated by a transaction that removes
\* the binding of the signer's address
TxWaitCompensating(L) ==
    /\ pc = "tx.wait"
    /\ \/ /\ calls' = calls \o <<"tx.wait", "removeBinding">>
          /\ Fault("tx.wait")
          /\ Exit1(<<"tx.wait failed">>)
          /\ binding' = 0
          /\ UNCHANGED <<logs, attestationId>>
       \/ /\ Issue("tx.wait")
          /\ \E ls \in L :
             LET i == FindRecorded(ls) IN
             /\ logs' = ls
             /\ IF i # 0
                THEN /\ attestationId' = ls[i].arg0
                     /\ pc' = "getAttestation"
                     /\ error' = error
                ELSE /\ Exit1(<<"Failed to extract attestation Id from transaction events">>)
                     /\ UNCHANGED attestationId
          /\ UNCHANGED <<faults, binding>>
    /\ UNCHANGED <<fixedVars, cliData, authMethodExists, stored, decoded, readBacks>>
    /\ UNCHANGED <<run, results, schemaId, recipient, schemaRecord, userDID, userId,
                   currentUserId, idReads, returned, request>>

\* tx.wait() and the scan of the receipt's logs for AttestationRecorded
TxWait(L) ==
    /\ pc = "tx.wait"
    /\ Issue("tx.wait")
    /\ \/ /\ Fault("tx.wait")
          /\ Exit1(<<"tx.wait failed">>)
          /\ UNCHANGED <<logs, attestationId>>
       \/ /\ \E ls \in L :
             LET i == FindRecorded(ls) IN
             /\ logs' = ls
             /\ IF i # 0
                THEN /\ attestationId' = ls[i].arg0
                     /\ pc' = "getAttestation"
                     /\ error' = error
                ELSE /\ Exit1(<<"Failed to extract attestation Id from transaction events">>)
                     /\ UNCHANGED attestationId
          /\ UNCHANGED faults
    /\ UNCHANGED <<fixedVars, cliData, authMethodExists, stored, decoded, readBacks>>
    /\ UNCHANGED <<run, results, binding, schemaId, recipient, schemaRecord, userDID, userId,
                   currentUserId, idReads, returned, request>>

\* what the registry may answer to getAttestation
StoredDatas == {request[1].data, ForeignData(script), <<>>}

\* variant: the validity check is left out after the read-back
GetAttestationOnly ==
    /\ pc = "getAttestation"
    /\ Issue("getAttestation")
    /\ readBacks' = Append(readBacks, [op |-> "getAttestation", id |-> attestationId])
    /\ \/ /\ Fault("getAttestation")
          /\ Exit1(<<"getAttestation failed">>)
          /\ UNCHANGED <<stored, decoded>>
       \/ /\ \E d \in StoredDatas :
                /\ stored' = <<[id |-> attestationId, data |-> d]>>
                /\ decoded' = <<>>
                /\ pc' = "exit0"
                /\ error' = error
          /\ UNCHANGED faults
    /\ UNCHANGED <<fixedVars, cliData, authMethodExists>>
    /\ UNCHANGED <<run, results, binding, schemaId, recipient, schemaRecord, userDID, userId,
                   currentUserId, idReads, returned, request, logs, attestationId>>

\* attestationRegistry.getAttestation(attestationId) and the decoding of the
\* stored data
GetAttestation ==
    /\ pc = "getAttestation"
    /\ Issue("getAttestation")
    /\ readBacks' = Append(readBacks, [op |-> "getAttestation", id |-> attestationId])
    /\ \/ /\ Fault("getAttestation")
          /\ Exit1(<<"getAttestation failed">>)
          /\ UNCHANGED <<stored, decoded>>
       \/ /\ \E d \in StoredDatas :
                /\ stored' = <<[id |-> attestationId, data |-> d]>>
                /\ IF Decodable(d)
                   THEN /\ decoded' = <<Decode(d)>>
                        /\ pc' = "isAttestationValid"
                        /\ error' = error
                   ELSE /\ Exit1(<<"decode failed">>)
                        /\ UNCHANGED decoded
          /\ UNCHANGED faults
    /\ UNCHANGED <<fixedVars, cliData, authMethodExists>>
    /\ UNCHANGED <<run, results, binding, schemaId, recipient, schemaRecord, userDID, userId,
                   currentUserId, idReads, returned, request, logs, attestationId>>

\* attestationRegistry.isAttestationValid(attestationId); main then resolves
\* and the process exits with 0
IsAttestationValid ==
    /\ pc = "isAttestationValid"
    /\ Issue("isAttestationValid")
    /\ readBacks' = Append(readBacks, [op |-> "isAttestationValid", id |-> attestationId])
    /\ \/ /\ Fault("isAttestationValid")
          /\ Exit1(<<"isAttestationValid failed">>)
       \/ /\ pc' = "exit0"
          /\ UNCHANGED <<error, faults>>
    /\ UNCHANGED <<fixedVars, cliData, authMethodExists, stored, decoded>>
    /\ UNCHANGED <<run, results, binding, schemaId, recipient, schemaRecord, userDID, userId,
                   currentUserId, idReads, returned, request, logs, attestationId>>

\* what is remembered of a finished run
RunSummary ==
    [exit |-> pc,
     returned |-> returned # <<>>,
     userId |-> IF returned # <<>> THEN returned[1].userId ELSE 0,
     binding |-> binding,
     request |-> request,
     submitted |-> Count(calls, "recordAttestation")]

\* the script is started again: a new process, the same chain
NextRun ==
    /\ pc \in {"exit0", "exit1"}
    /\ run < MaxRuns
    /\ run' = run + 1
    /\ results' = Append(results, RunSummary)
    /\ pc' = "main"
    /\ schemaId' = <<>>
    /\ recipient' = NoRecipient
    /\ schemaRecord' = <<>>
    /\ userDID' = NoDID
    /\ userId' = 0
    /\ currentUserId' = 0
    /\ idReads' = <<>>
    /\ calls' = <<>>
    /\ error' = <<>>
    /\ returned' = <<>>
    /\ request' = <<>>
    /\ logs' = <<>>
    /\ attestationId' = 0
    /\ faults' = {}
    /\ cliData' = NoCliData
    /\ authMethodExists' = <<>>
    /\ stored' = <<>>
    /\ decoded' = <<>>
    /\ readBacks' = <<>>
    /\ UNCHANGED <<binding, fixedVars>>

(* ----------------------------- revoke script --------------------------- *)
\* values of the --id option
RevokeIds == {Undefined, <<>>, <<"0", "x", "1">>}

\* variant: only an absent option counts as missing
IdMissingAbsentOnly(id) == id = Undefined
\* !id
IdMissing(id) == id = Undefined \/ id = <<>>

\* main of the revoke script up to its first await
RevokeMain ==
    /\ pc = "main"
    /\ script = "revoke"
    /\ IF MissingParam(RequiredParams(script), env) # ""
       THEN /\ Exit1(NotDefined(MissingParam(RequiredParams(script), env)))
            /\ UNCHANGED revokeId
       ELSE \E id \in RevokeIds :
            /\ revokeId' = id
            /\ IF IdMissing(id)
               THEN Exit1(<<"'id' for the attestation to revoke is required">>)
               ELSE pc' = "revokeAttestation" /\ error' = error
    /\ UNCHANGED <<calls, faults, script, env, revoked, listVars, createVars>>

\* attestationRegistry.revokeAttestation(id)
RevokeAttestation ==
    /\ pc = "revokeAttestation"
    /\ Issue("revokeAttestation")
    /\ revoked' = Append(revoked, revokeId)
    /\ \/ Fault("revokeAttestation") /\ Exit1(<<"revokeAttestation failed">>)
       \/ pc' = "revokeTx.wait" /\ UNCHANGED <<error, faults>>
    /\ UNCHANGED <<script, env, revokeId, listVars, createVars>>

\* tx.wait(); main then resolves and the process exits with 0
RevokeTxWait ==
    /\ pc = "revokeTx.wait"
    /\ Issue("tx.wait")
    /\ \/ Fault("tx.wait") /\ Exit1(<<"tx.wait failed">>)
       \/ pc' = "exit0" /\ UNCHANGED <<error, faults>>
    /\ UNCHANGED <<script, env, revokeId, revoked, listVars, createVars>>

(* -------------------------- list-reviews script ------------------------ *)
AgentDids == {Undefined, <<"d", "i", "d", ":", "a">>}

\* a field descriptor {value: {name, value}} of decodedDataJson
Field(n, v) == [name |-> n, value |-> v]
\* items the attestations API may return; fields is what JSON.parse yields for
\* the item's decodedDataJson
ReviewA == [fromDid |-> "did:a",
            fields |-> <<Field("stars", <<"5">>), Field("comment", <<"o", "k">>)>>]
ReviewB == [fromDid |-> "did:b",
            fields |-> <<Field("comment", <<"n", "o">>), Field("stars", <<"4">>)>>]
ReviewNoStars == [fromDid |-> "did:c", fields |-> <<Field("comment", <<"o", "k">>)>>]
ReviewNoComment == [fromDid |-> "did:d", fields |-> <<Field("stars", <<"5">>)>>]
\* the data array of one response
ItemLists == {<<>>, <<ReviewA>>, <<ReviewB>>, <<ReviewA, ReviewB>>, <<ReviewNoStars>>,
              <<ReviewNoComment>>}
\* the totalPages member of a response: <<n>>, or <<>> when it is absent
TotalPagesValues == {<<>>} \cup {<<n>> : n \in 0..MaxPages}

\* the totalPages member of a later page's response, which the code never reads
LaterTotalPages == {<<>>, <<1>>, <<MaxPages + 1>>}

\* `${x}` of an environment variable or option
Interpolate(defined, v) == IF defined THEN v ELSE "undefined"
\* the URL axios.get is given for a page
PageRequest(n) ==
    [base |-> Interpolate("BILLIONS_ATTESTATIONS_API_URL" \in env, "api-url"),
     recipientDid |-> Interpolate(agentDid # Undefined, "agent-did"),
     schemaId |-> Interpolate("REVIEW_ATTESTATION_SCHEMA" \in env, "review-schema"),
     page_number |-> n,
     page_size |-> PageSize]

\* totalPages > 1
HasMorePages(tp) == tp # <<>> /\ tp[1] > 1
\* variant: the loop stops one page early
LoopContinuesStrict(p, tp) == p < tp[1]
\* variant: the loop follows the totalPages of the page just fetched
LoopContinuesLatest(p, tp) == pagedTotalPages' # <<>> /\ p <= pagedTotalPages'[1]
\* page <= totalPages
LoopContinues(p, tp) == p <= tp[1]

\* variant: the stars are taken from the first descriptor and the comment from
\* the last one
FindFieldByPosition(item, n) ==
    IF n = "stars" THEN (IF item.fields = <<>> THEN 0 ELSE 1) ELSE Len(item.fields)
\* decodedDataJson.find(field => field.value.name === name): index, 0 for undefined
FindField(item, n) ==
    IF \E i \in 1..Len(item.fields) : item.fields[i].name = n
    THEN CHOOSE i \in 1..Len(item.fields) :
            item.fields[i].name = n /\ \A j \in 1..(i - 1) : item.fields[j].name # n
    ELSE 0
FieldValue(item, n) == item.fields[FindField(item, n)].value
NaN == 0 - 1
\* Number(x) of a string: 0 for "", the number for decimal digits, else NaN
Number(s) == IF s = <<>> THEN 0 ELSE IF IsDecimal(s) THEN ToBigInt(s) ELSE NaN
\* Number(starsField.value.value)
StarsOf(item) == Number(FieldValue(item, "stars"))

\* reviews.reduce(...): the sum of the stars
RECURSIVE TotalStars(_)
TotalStars(rs) == IF rs = <<>> THEN 0
                  ELSE TotalStars(SubSeq(rs, 1, Len(rs) - 1)) + StarsOf(rs[Len(rs)])

\* variant: the division is not guarded
AverageStarsUnguarded(total, count) == <<total, count>>
\* reviewCount > 0 ? totalStars / reviewCount : 0, as a fraction
AverageStars(total, count) == IF count > 0 THEN <<total, count>> ELSE <<0, 1>>
\* toFixed(2) in hundredths; 0 / 0 is NaN
ToFixed2(q) == IF q[2] = 0 THEN NaN ELSE (200 * q[1] + q[2]) \div (2 * q[2])

\* the two lines printed for each of the first n reviews: the reviewer with
\* the stars, then the comment
ReviewLines(rs, n) ==
    [i \in 1..n |-> [fromDid |-> rs[i].fromDid,
                     stars |-> FieldValue(rs[i], "stars"),
                     comment |-> <<FieldValue(rs[i], "comment")>>]]
\* the first line of a review whose comment line raised
HalfReview(r) == [fromDid |-> r.fromDid, stars |-> FieldValue(r, "stars"), comment |-> <<>>]

\* variant: a review lacking a field is left out of the sum, the count and the
\* printed lines, and the run succeeds
HasBothFields(item) == FindField(item, "stars") # 0 /\ FindField(item, "comment") # 0
FinishSkipping(rs) ==
    LET ok == SelectSeq(rs, HasBothFields) IN
    /\ output' = <<[summary |-> [average |-> ToFixed2(AverageStars(TotalStars(ok), Len(ok))),
                                  count |-> Len(ok)],
                     lines |-> ReviewLines(ok, Len(ok))]>>
    /\ pc' = "exit0"
    /\ error' = error
\* main after getReviewsForAgent returned rs: the reduce, the summary line and
\* the review lines; a field that find does not find raises a TypeError
Finish(rs) ==
    IF \E i \in 1..Len(rs) : FindField(rs[i], "stars") = 0
    THEN Exit1(<<"TypeError">>) /\ UNCHANGED output
    ELSE LET summary == [average |-> ToFixed2(AverageStars(TotalStars(rs), Len(rs))),
                         count |-> Len(rs)]
             bad == {i \in 1..Len(rs) : FindField(rs[i], "comment") = 0}
         IN IF bad = {}
            THEN /\ output' = <<[summary |-> summary, lines |-> ReviewLines(rs, Len(rs))]>>
                 /\ pc' = "exit0"
                 /\ error' = error
            ELSE LET k == CHOOSE i \in bad : \A j \in bad : i <= j IN
                 /\ output' = <<[summary |-> summary,
                                  lines |-> Append(ReviewLines(rs, k - 1), HalfReview(rs[k]))]>>
                 /\ Exit1(<<"TypeError">>)

\* variant: a failed fetch is caught and the pages fetched so far are used
FetchFailurePartial(e) == Finish(reviews)
\* a rejected axios.get leaves getReviewsForAgent and main
FetchFailure(e) == Exit1(e) /\ UNCHANGED output

\* main of the list-reviews script up to its first await
ListMain ==
    /\ pc = "main"
    /\ script = "list"
    /\ \E d \in AgentDids : agentDid' = d
    /\ pc' = "fetchPage1"
    /\ UNCHANGED <<calls, error, faults, script, env, revokeId, revoked, createVars>>
    /\ UNCHANGED <<requests, responses, reviews, totalPages, page, output, pagedTotalPages>>

\* the request for page 1 and what follows its response
FetchPage1 ==
    /\ pc = "fetchPage1"
    /\ Issue("axios.get")
    /\ requests' = Append(requests, PageRequest(1))
    /\ \/ /\ Fault("axios.get")
          /\ FetchFailure(<<"axios.get failed">>)
          /\ UNCHANGED <<responses, reviews, totalPages, page>>
       \/ /\ \E data \in ItemLists, tp \in TotalPagesValues :
                /\ responses' = Append(responses, data)
                /\ reviews' = reviews \o data
                /\ totalPages' = tp
                /\ IF HasMorePages(tp)
                   THEN /\ page' = 2
                        /\ pc' = "fetchPage"
                        /\ UNCHANGED <<error, output>>
                   ELSE /\ Finish(reviews')
                        /\ UNCHANGED page
          /\ UNCHANGED faults
    /\ UNCHANGED <<script, env, revokeId, revoked, agentDid, pagedTotalPages, createVars>>

\* one turn of the loop over the pages 2..totalPages
FetchPage ==
    /\ pc = "fetchPage"
    /\ Issue("axios.get")
    /\ requests' = Append(requests, PageRequest(page))
    /\ \/ /\ Fault("axios.get")
          /\ FetchFailure(<<"axios.get failed">>)
          /\ UNCHANGED <<responses, reviews, page, pagedTotalPages>>
       \/ /\ \E data \in ItemLists, tp \in LaterTotalPages :
                /\ pagedTotalPages' = tp
                /\ responses' = Append(responses, data)
                /\ reviews' = reviews \o data
                /\ page' = page + 1
                /\ IF LoopContinues(page + 1, totalPages)
                   THEN UNCHANGED <<pc, error, output>>
                   ELSE Finish(reviews')
          /\ UNCHANGED faults
    /\ UNCHANGED <<script, env, revokeId, revoked, agentDid, totalPages, createVars>>

(* --------------------------- specifications ---------------------------- *)
\* one run of a script, over all the inputs
Next ==
    \/ Main(CreateInputs)
    \/ CreateIdentity
    \/ GetSchema
    \/ GetDefaultIdType
    \/ GetIdByAddress
    \/ GenerateAuthProof
    \/ AuthMethodExists
    \/ SubmitResponse
    \/ AuthTxWait
    \/ GetIdByAddress2
    \/ RecordAttestation
    \/ TxWait(LogLists)
    \/ GetAttestation
    \/ IsAttestationValid
    \/ RevokeMain
    \/ RevokeAttestation
    \/ RevokeTxWait
    \/ ListMain
    \/ FetchPage1
    \/ FetchPage

Spec == Init /\ [][Next]_vars

\* consecutive runs of a create script with well-formed arguments
RunSchemaIds == {ValidSchemaId, ShortSchemaId}
RunCliArgs == {a \in CliArgs : a.recipientDid \notin {Undefined, <<>>, <<" ">>}
                               /\ a.recipientId = Undefined
                               /\ a.recipientAddress = Undefined}
RunData == IF script = "review"
           THEN {d \in ReviewData : d.stars \in {Undefined, <<"5">>} /\ d.comment = <<"o", "k">>}
           ELSE {NoCliData}
RunInputs == [sid : RunSchemaIds, args : RunCliArgs, data : RunData]
RunLogLists == {ls \in LogLists : Len(ls) <= 1 /\ \A i \in 1..Len(ls) : ls[i].arg0 <= 1}

NextRuns ==
    \/ Main(RunInputs)
    \/ CreateIdentity
    \/ GetSchema
    \/ GetDefaultIdType
    \/ GetIdByAddress
    \/ GenerateAuthProof
    \/ AuthMethodExists
    \/ SubmitResponse
    \/ AuthTxWait
    \/ GetIdByAddress2
    \/ RecordAttestation
    \/ TxWait(RunLogLists)
    \/ GetAttestation
    \/ IsAttestationValid
    \/ NextRun

InitRuns == Init /\ script \in CreateScripts

SpecRuns == InitRuns /\ [][NextRuns]_vars

(* ------------------------------- claims -------------------------------- *)
LastRead == idReads[Len(idReads)]
FirstRead == idReads[1]
Candidate == IdFromDID(userDID)
AuthSteps == {"generateAuthProof", "authMethodExists", "submitResponse", "authTx.wait"}
NoRecordedLog == \A i \in 1..Len(logs) :
                    ~(logs[i].decodes /\ logs[i].name = "AttestationRecorded")
IsBytes32Hex(s) ==
    /\ Len(s) = 66
    /\ s[1] = "0" /\ s[2] = "x"
    /\ \A i \in 3..Len(s) : s[i] \in HexChars
FormatError == <<"Invalid schema Id format">>
\* a create script got past its configuration and recipient checks and called
\* checkAuthenticationAuthV2
AuthEntered ==
    /\ script \in CreateScripts
    /\ pc # "main"
    /\ MissingParam(RequiredParams(script), env) = ""
    /\ ~RecipientMissing(recipient)

\* C1: whenever checkAuthenticationAuthV2 has returned, the userId it returned
\* (and the attester.iden3Id then submitted) equals the id the last
\* getIdByAddress read returned.
C1_ReturnedIdIsLastRead ==
    /\ returned # <<>> => returned[1].userId = LastRead
    /\ request # <<>> => request[1].attester.iden3Id = LastRead

\* C2: when the first getIdByAddress read returned B with B # 0 and B different
\* from the locally derived id A, checkAuthenticationAuthV2 returns userId = B.
C2_OnChainIdWins ==
    (returned # <<>> /\ FirstRead # 0 /\ FirstRead # Candidate)
        => returned[1].userId = FirstRead

\* C3: in a run that follows a run which returned and left a non-zero binding,
\* no submitResponse is submitted and the same userId is returned.
C3_SecondRunIsNoOp ==
    (run >= 2 /\ results[run - 1].returned /\ results[run - 1].binding # 0)
        => /\ ~Called("submitResponse")
           /\ returned # <<>> => returned[1].userId = results[run - 1].userId

\* C4: once proof generation, authMethodExists, submitResponse or its inclusion
\* wait has failed, the run has ended in an error, checkAuthenticationAuthV2 has
\* not returned, no recordAttestation was submitted, and submitResponse was
\* submitted at most once.
C4_AuthFailureIsFatal ==
    /\ Count(calls, "submitResponse") <= 1
    /\ (faults \cap AuthSteps # {})
        => /\ pc = "exit1"
           /\ error # <<>>
           /\ returned = <<>>
           /\ request = <<>>
           /\ ~Called("recordAttestation")
C4_Witness ==
    /\ "authTx.wait" \in faults
    /\ Count(calls, "submitResponse") = 1
    /\ pc = "exit1"

\* C5: a run that submitted submitResponse returns only after a second
\* getIdByAddress read, and if that read returned 0 the run has failed without
\* returning and without submitting recordAttestation.
C5_StillZeroIsFatal ==
    /\ (Called("submitResponse") /\ returned # <<>>)
        => (Len(idReads) = 2 /\ LastRead # 0)
    /\ (Len(idReads) = 2 /\ LastRead = 0)
        => /\ pc = "exit1"
           /\ error # <<>>
           /\ returned = <<>>
           /\ ~Called("recordAttestation")
C5_Witness ==
    /\ Len(idReads) = 2
    /\ LastRead = 0
    /\ Called("authTx.wait")
    /\ pc = "exit1"

\* C6: when the receipt of recordAttestation holds no log that decodes to an
\* AttestationRecorded event, the run has ended in the extraction error and
\* neither getAttestation nor isAttestationValid is called; a run that goes on
\* to the read-back or exits with 0 has an attestation id.
C6_MissingEventIsFatal ==
    /\ (script \in CreateScripts /\ Called("tx.wait") /\ "tx.wait" \notin faults
          /\ NoRecordedLog)
        => /\ pc = "exit1"
           /\ error = <<"Failed to extract attestation Id from transaction events">>
           /\ attestationId = 0
           /\ ~Called("getAttestation")
           /\ ~Called("isAttestationValid")
    /\ (script \in CreateScripts /\ (pc = "exit0" \/ Called("getAttestation")))
        => attestationId # 0
C6_Witness ==
    /\ pc = "exit1"
    /\ logs = <<UndecodableLog, OtherEventLog>>
    /\ "tx.wait" \notin faults

\* C7: no recordAttestation is submitted whose recipient has an empty DID, a
\* zero iden3Id and the zero address all at once.
C7_RecipientNeverEmpty ==
    request # <<>>
        => ~ /\ request[1].recipient.did = <<>>
             /\ request[1].recipient.iden3Id = 0
             /\ request[1].recipient.ethereumAddress = ZeroAddress

\* C8: when checkAuthenticationAuthV2 is called with a schemaId that lacks the
\* 0x prefix or whose length is not 66, the run has failed with the
\* invalid-format error and no network call was made.
C8_FormatCheckFirst ==
    (AuthEntered
       /\ ~(Len(schemaId) = 66 /\ Len(schemaId) >= 2 /\ schemaId[1] = "0" /\ schemaId[2] = "x"))
        => /\ pc = "exit1"
           /\ error = FormatError
           /\ calls = <<>>
C8_Witness ==
    /\ pc = "exit1"
    /\ schemaId = ShortSchemaId
    /\ error = FormatError
    /\ calls = <<>>

\* C9: every schemaId that is not 0x followed by 64 hex characters is rejected
\* with the invalid-format error and never reaches schemaRegistry.getSchema.
C9_NonHexRejected ==
    (AuthEntered /\ ~IsBytes32Hex(schemaId))
        => /\ pc = "exit1"
           /\ error = FormatError
           /\ ~Called("getSchema")

\* C10: when getSchema returned a record whose id is all zero, the run has
\* failed with the schema-not-found error, getIdByAddress was never read and
\* neither submitResponse nor recordAttestation was submitted.
C10_SchemaNotFoundIsFatal ==
    (schemaRecord # <<>> /\ schemaRecord[1].id = ZeroHash)
        => /\ pc = "exit1"
           /\ error = <<"Schema not found">>
           /\ idReads = <<>>
           /\ ~Called("getIdByAddress")
           /\ ~Called("submitResponse")
           /\ ~Called("recordAttestation")
C10_Witness ==
    /\ schemaRecord # <<>>
    /\ schemaRecord[1].id = ZeroHash
    /\ pc = "exit1"

\* C11: when authMethodExists("authV2") answered false, the run has failed with
\* an error, checkAuthenticationAuthV2 has not returned, and neither
\* submitResponse nor recordAttestation was submitted.
C11_NoAuthMethodIsFatal ==
    authMethodExists = <<FALSE>>
        => /\ pc = "exit1"
           /\ error # <<>>
           /\ returned = <<>>
           /\ request = <<>>
           /\ ~Called("submitResponse")
           /\ ~Called("recordAttestation")
C11_Witness ==
    /\ authMethodExists = <<FALSE>>
    /\ Called("authMethodExists")
    /\ pc = "exit1"

\* C12: the error of a run that failed because the on-chain id was still zero
\* after an included submitResponse differs from the error of a run that failed
\* because the authV2 method is not registered and from the error of a run
\* whose submitResponse failed.
C12_ErrorNamesCause ==
    (pc = "exit1" /\ Len(idReads) = 2 /\ LastRead = 0)
        => /\ error # InnerFailure(<<"authV2 auth method not found">>)
           /\ error # InnerFailure(<<"submitResponse failed">>)

\* C13: a create run that exits with 0 has called getAttestation and then
\* isAttestationValid, once each and in that order, both with the first
\* argument of the first AttestationRecorded log of the receipt; a failure of
\* either read ends the run in an error.
C13_ReadBackBeforeSuccess ==
    /\ (script \in CreateScripts /\ pc = "exit0")
        => /\ ~NoRecordedLog
           /\ LET first == CHOOSE i \in 1..Len(logs) :
                              /\ logs[i].decodes /\ logs[i].name = "AttestationRecorded"
                              /\ \A j \in 1..(i - 1) :
                                    ~(logs[j].decodes /\ logs[j].name = "AttestationRecorded")
              IN readBacks = <<[op |-> "getAttestation", id |-> logs[first].arg0],
                               [op |-> "isAttestationValid", id |-> logs[first].arg0]>>
    /\ ({"getAttestation", "isAttestationValid"} \cap faults # {})
        => (pc = "exit1" /\ error # <<>>)
C13_Witness ==
    /\ script = "review"
    /\ pc = "exit0"
    /\ logs = <<OtherEventLog, RecordedLog(2)>>
    /\ Len(readBacks) = 2

\* C14: a create-review run that exits with 0 has decoded, from the record it
\* read back, exactly the stars and the comment it submitted.
C14_ReadBackEqualsSubmitted ==
    (script = "review" /\ pc = "exit0")
        => decoded = <<(<<ToBigInt(cliData.stars), cliData.comment>>)>>

\* a create run whose checkAuthenticationAuthV2 returned and whose submission
\* step has acted
PastSubmission == returned # <<>> /\ pc # "recordAttestation"
\* C15 as stated: every create run that got past authentication has submitted
\* exactly one recordAttestation.
C15_EveryAuthenticatedRunSubmits ==
    PastSubmission => Count(calls, "recordAttestation") = 1
\* C15: every create run that got past authentication and whose data encodes
\* has submitted exactly one recordAttestation, with no registry read before
\* it; a run whose request equals the request of the run before it has
\* submitted it again, so the two runs submitted two.
C15_IssuingIsNotIdempotent ==
    /\ (PastSubmission /\ Encodable)
        => /\ Count(calls, "recordAttestation") = 1
           /\ \A i \in 1..Len(calls) :
                calls[i] \in {"getAttestation", "isAttestationValid"}
                    => \E j \in 1..(i - 1) : calls[j] = "recordAttestation"
    /\ (run >= 2 /\ request # <<>> /\ results[run - 1].request = request)
        => results[run - 1].submitted + Count(calls, "recordAttestation") = 2
C15_Witness ==
    /\ run = 2
    /\ request # <<>>
    /\ results[1].request = request
    /\ Count(calls, "recordAttestation") = 1
    /\ pc = "exit0"

\* the items of the first n pages, in page order
RECURSIVE PagesUpTo(_, _)
PagesUpTo(pages, n) == IF n = 0 THEN <<>> ELSE PagesUpTo(pages, n - 1) \o pages[n]
\* the list-reviews run got every page it asked for and went on to report
Drained == script = "list" /\ pc \in {"exit0", "exit1"} /\ faults = {}
\* C16: the i-th request asks for page_number i with page_size 20 and is issued
\* only when the responses to all earlier requests have arrived; when page 1
\* reported totalPages = N >= 1 and every fetch succeeded, exactly N requests
\* were issued and the list is the concatenation of the N data arrays in page
\* order.
C16_PaginationDrains ==
    /\ \A i \in 1..Len(requests) :
            requests[i].page_number = i /\ requests[i].page_size = 20
    /\ Len(requests) \in {Len(responses), Len(responses) + 1}
    /\ (Drained /\ totalPages # <<>> /\ totalPages[1] >= 1)
        => /\ Len(requests) = totalPages[1]
           /\ Len(responses) = totalPages[1]
           /\ reviews = PagesUpTo(responses, totalPages[1])
C16_Witness ==
    /\ Drained
    /\ pc = "exit0"
    /\ totalPages = <<3>>
    /\ responses = <<(<<ReviewA, ReviewB>>), <<ReviewB>>, <<ReviewA>>>>
    /\ Len(requests) = 3

\* C17: once the fetch of a page has failed, the run has ended in an error,
\* nothing was reported (no average, no review line) although earlier pages
\* may have brought items, and the failed request is the last one issued.
C17_FailedFetchAborts ==
    "axios.get" \in faults
        => /\ pc = "exit1"
           /\ error # <<>>
           /\ output = <<>>
           /\ Len(requests) = Len(responses) + 1
C17_Witness ==
    /\ "axios.get" \in faults
    /\ Len(responses) = 2
    /\ reviews # <<>>
    /\ totalPages = <<3>>
    /\ pc = "exit1"

\* the stars of the first n reviews, added up
RECURSIVE StarsSum(_, _)
StarsSum(rs, n) ==
    IF n = 0 THEN 0
    ELSE LET f == CHOOSE i \in 1..Len(rs[n].fields) : rs[n].fields[i].name = "stars"
         IN StarsSum(rs, n - 1) + ToBigInt(rs[n].fields[f].value)
Abs(x) == IF x < 0 THEN 0 - x ELSE x
\* C18: the reported count is the number of fetched reviews and the reported
\* average (in hundredths) is the sum of their stars divided by their number,
\* to the nearest hundredth; it is 0 when there is no review.
C18_AverageIsSumOverCount ==
    output # <<>>
        => LET n == Len(reviews)
               avg == output[1].summary.average
           IN /\ output[1].summary.count = n
              /\ n = 0 => avg = 0
              /\ n > 0 => 2 * Abs(avg * n - 100 * StarsSum(reviews, n)) <= n
C18_Witness ==
    /\ output # <<>>
    /\ Len(reviews) = 3
    /\ output[1].summary.average = 467
    /\ pc = "exit0"

\* C19: a script that has left its start while a variable it uses is unset has
\* failed with the error naming an unset variable it uses, and has made no
\* network call.
C19_MissingEnvFailsFast ==
    (pc # "main" /\ UsedEnv(script) \ env # {})
        => /\ pc = "exit1"
           /\ calls = <<>>
           /\ \E v \in UsedEnv(script) \ env : error = NotDefined(v)

\* the last call a script makes when its main runs to the end
FinalCall == CASE script \in CreateScripts -> "isAttestationValid"
               [] script = "revoke" -> "tx.wait"
               [] script = "list" -> "axios.get"
\* C20: the process exits with 0 only when main ran to its end and no error
\* was raised, and with 1 exactly when an error was raised: a failed
\* configuration or argument check, a rejected call or wait, a receipt without
\* the event, and a failed page fetch have all led to exit code 1.
C20_ExitCode ==
    /\ pc = "exit0"
        => /\ error = <<>>
           /\ faults = {}
           /\ calls # <<>>
           /\ calls[Len(calls)] = FinalCall
    /\ pc = "exit1" <=> error # <<>>
    /\ faults # {} => pc = "exit1"
    /\ (pc # "main" /\ MissingParam(RequiredParams(script), env) # "") => pc = "exit1"
    /\ (pc # "main" /\ script = "revoke" /\ revokeId \in {Undefined, <<>>}) => pc = "exit1"
    /\ (pc # "main" /\ script \in CreateScripts /\ RecipientMissing(recipient))
        => pc = "exit1"
    /\ (script \in CreateScripts /\ Called("tx.wait") /\ NoRecordedLog) => pc = "exit1"
C20_Witness ==
    /\ script = "revoke"
    /\ "tx.wait" \in faults
    /\ pc = "exit1"
    /\ error # <<>>

\* the branch of checkAuthenticationAuthV2 that authenticates has been entered
AuthStarted == pc = "generateAuthProof" \/ Called("generateAuthProof")
\* C21: once the first getIdByAddress read has returned, an authentication
\* attempt has been started exactly when the id read is 0 or differs from the
\* candidate id; when it is non-zero and equal to the candidate, no proof was
\* generated and no submitResponse was submitted.
C21_AuthBranch ==
    /\ AuthStarted => idReads # <<>>
    /\ idReads # <<>>
        => /\ AuthStarted <=> (FirstRead = 0 \/ FirstRead # Candidate)
           /\ (FirstRead # 0 /\ FirstRead = Candidate)
                => /\ ~Called("generateAuthProof")
                   /\ ~Called("authMethodExists")
                   /\ ~Called("submitResponse")
                   /\ Len(idReads) = 1
C21_Witness ==
    /\ idReads # <<>>
    /\ FirstRead # 0
    /\ FirstRead = Candidate
    /\ Called("recordAttestation")
    /\ ~Called("submitResponse")

IsPrefix(a, b) == Len(a) <= Len(b) /\ a = SubSeq(b, 1, Len(a))
\* the calls of a create run that authenticates, and of one that does not
AuthPath == <<"createIdentity", "getSchema", "getDefaultIdType", "getIdByAddress",
              "generateAuthProof", "authMethodExists", "submitResponse", "authTx.wait",
              "getIdByAddress", "recordAttestation", "tx.wait", "getAttestation",
              "isAttestationValid">>
NoAuthPath == <<"createIdentity", "getSchema", "getDefaultIdType", "getIdByAddress",
                "recordAttestation", "tx.wait", "getAttestation", "isAttestationValid">>
\* C22: the calls a create run has issued are, in order, an initial part of
\* getSchema, getIdByAddress, [authMethodExists, submitResponse, its inclusion
\* wait, getIdByAddress], recordAttestation, its inclusion wait, getAttestation,
\* isAttestationValid, each issued once the one before it was answered; the
\* log scan has yielded the attestation id before getAttestation is called, and
\* recordAttestation is submitted only after a getIdByAddress read of the run
\* returned a non-zero id.
C22_StrictOrder ==
    script \in CreateScripts
        => /\ IsPrefix(calls, AuthPath) \/ IsPrefix(calls, NoAuthPath)
           /\ faults # {} => calls[Len(calls)] \in faults
           /\ Called("recordAttestation") => (idReads # <<>> /\ LastRead # 0)
           /\ Called("getAttestation")
                => /\ attestationId # 0
                   /\ \E i \in 1..Len(logs) : logs[i].arg0 = attestationId
C22_Witness ==
    /\ script = "ownership"
    /\ calls = AuthPath
    /\ pc = "exit0"

\* C23: whenever checkAuthenticationAuthV2 has returned, the returned userDid
\* is the DID of the returned userId, and the attester submitted in
\* recordAttestation carries that userId and that DID.
C23_DidOfReturnedId ==
    /\ returned # <<>>
        => /\ returned[1].userDid = <<DidPrefix, returned[1].userId>>
           /\ IdFromDID(returned[1].userDid) = returned[1].userId
    /\ request # <<>>
        => /\ request[1].attester.iden3Id = returned[1].userId
           /\ request[1].attester.did = <<DidPrefix, request[1].attester.iden3Id>>
C23_Witness ==
    /\ request # <<>>
    /\ Called("submitResponse")
    /\ LastRead # request[1].attester.iden3Id
    /\ request[1].attester.did = <<DidPrefix, request[1].attester.iden3Id>>

\* log i of the receipt decodes to AttestationRecorded
RecordedAt(i) == logs[i].decodes /\ logs[i].name = "AttestationRecorded"
\* C24: when the receipt holds a log that decodes to AttestationRecorded, the
\* logs before it that do not decode or that decode to another event have
\* raised no error, the run has gone on to the read-back, and the attestation
\* id is the first argument of the first such log in receipt order.
C24_FirstRecordedLogWins ==
    \A i \in 1..Len(logs) :
        (RecordedAt(i) /\ \A j \in 1..(i - 1) : ~RecordedAt(j))
            => /\ attestationId = logs[i].arg0
               /\ error # <<"Failed to extract attestation Id from transaction events">>
               /\ pc = "getAttestation" \/ Called("getAttestation")
               /\ \A k \in 1..Len(readBacks) : readBacks[k].id = logs[i].arg0
C24_Witness ==
    /\ logs = <<UndecodableLog, RecordedLog(2)>>
    /\ attestationId = 2
    /\ Called("getAttestation")

\* a review with its field descriptors in the opposite order
Reversed(r) == [r EXCEPT !.fields = [i \in 1..Len(r.fields) |-> r.fields[Len(r.fields) + 1 - i]]]
\* the value of the descriptor of r that carries the name n
NamedValue(r, n) == (CHOOSE f \in {r.fields[i] : i \in 1..Len(r.fields)} : f.name = n).value
\* C25: what the run has printed is what it prints for the same reviews with
\* their field descriptors permuted: the same total and average of stars, and
\* for every review the stars and the comment of the descriptors that carry
\* these names, wherever they stand.
C25_LookupByName ==
    output # <<>>
        => LET perm == [i \in 1..Len(reviews) |-> Reversed(reviews[i])]
               lines == output[1].lines
           IN /\ \A i \in 1..Len(lines) :
                    /\ lines[i].stars = NamedValue(reviews[i], "stars")
                    /\ lines[i].stars = FieldValue(perm[i], "stars")
                    /\ lines[i].comment # <<>>
                        => /\ lines[i].comment[1] = NamedValue(reviews[i], "comment")
                           /\ lines[i].comment[1] = FieldValue(perm[i], "comment")
              /\ TotalStars(perm) = TotalStars(reviews)
              /\ output[1].summary.average
                    = ToFixed2(AverageStars(TotalStars(perm), Len(perm)))
C25_Witness ==
    /\ output # <<>>
    /\ reviews = <<ReviewA, ReviewB>>
    /\ output[1].summary.average = 450
    /\ pc = "exit0"

\* C26: the revoke script calls nothing but revokeAttestation and then the
\* wait for its inclusion, each at most once and the former with the --id it
\* was given; a run that exits with 0 has done both; a run with a configured
\* environment and a non-empty --id has submitted revokeAttestation(id) or is
\* about to; a run whose --id is absent or empty has called nothing.
C26_RevokeFrame ==
    script = "revoke"
        => /\ IsPrefix(calls, <<"revokeAttestation", "tx.wait">>)
           /\ Len(revoked) = Count(calls, "revokeAttestation")
           /\ \A i \in 1..Len(revoked) : revoked[i] = revokeId
           /\ pc = "exit0"
                => (calls = <<"revokeAttestation", "tx.wait">> /\ revoked = <<revokeId>>)
           /\ (pc # "main" /\ MissingParam(RequiredParams(script), env) = ""
                 /\ revokeId \notin {Undefined, <<>>})
                => (pc = "revokeAttestation" \/ revoked = <<revokeId>>)
           /\ revokeId \in {Undefined, <<>>} => (calls = <<>> /\ revoked = <<>>)
C26_Witness ==
    /\ script = "revoke"
    /\ pc = "exit0"
    /\ revoked = <<(<<"0", "x", "1">>)>>
    /\ calls = <<"revokeAttestation", "tx.wait">>

\* the run's submitResponse was included and a step after the return of
\* checkAuthenticationAuthV2 has failed
FailedAfterAuth ==
    /\ script \in CreateScripts
    /\ Called("authTx.wait")
    /\ "authTx.wait" \notin faults
    /\ returned # <<>>
    /\ pc = "exit1"
\* C27: when submitResponse was included and a later step has failed, the run
\* has issued nothing after the failing step, it has submitted submitResponse
\* once and recordAttestation at most once and no other transaction, and the
\* binding in the AuthVerifier is the one the run read after its
\* authentication transaction.
C27_NotTransactional ==
    FailedAfterAuth
        => /\ IsPrefix(calls, AuthPath)
           /\ Count(calls, "submitResponse") = 1
           /\ Count(calls, "recordAttestation") <= 1
           /\ faults # {} => calls[Len(calls)] \in faults
           /\ Len(idReads) = 2
           /\ binding = idReads[2]
           /\ binding # 0
C27_Witness ==
    /\ FailedAfterAuth
    /\ "tx.wait" \in faults
    /\ binding = 2

AuthEnded == AuthEntered /\ (returned # <<>> \/ pc = "exit1")
\* the calls checkAuthenticationAuthV2 made, and the error it ended with
AuthCalls == SelectSeq(calls, LAMBDA c : c \notin {"recordAttestation", "tx.wait",
                                                    "getAttestation", "isAttestationValid"})
AuthError == IF returned = <<>> THEN error ELSE <<>>
AuthOutcome(n, e, uid) == [calls |-> SubSeq(AuthPath, 1, n), error |-> e, userId |-> uid]
InnerError == <<"User authentication failed", "Could not authenticate",
                "ethIdentity auth method not registered or not configured">>
\* what a call of checkAuthenticationAuthV2 does, as a function of its schemaId
\* and of the answers it got: the created identity, the schema record, the
\* ids read, the answer of authMethodExists and the calls that failed
ExpectedAuth ==
    IF ~(Len(schemaId) = 66 /\ schemaId[1] = "0" /\ schemaId[2] = "x")
        THEN AuthOutcome(0, FormatError, <<>>)
    ELSE IF "createIdentity" \in faults
        THEN AuthOutcome(1, <<"createIdentity failed">>, <<>>)
    ELSE IF "getSchema" \in faults
        THEN AuthOutcome(2, <<"getSchema failed">>, <<>>)
    ELSE IF schemaRecord[1].id = ZeroHash
        THEN AuthOutcome(2, <<"Schema not found">>, <<>>)
    ELSE IF "getDefaultIdType" \in faults
        THEN AuthOutcome(3, <<"getDefaultIdType failed">>, <<>>)
    ELSE IF "getIdByAddress" \in faults /\ idReads = <<>>
        THEN AuthOutcome(4, <<"getIdByAddress failed">>, <<>>)
    ELSE IF idReads[1] # 0 /\ idReads[1] = userDID[2]
        THEN AuthOutcome(4, <<>>, <<userDID[2]>>)
    ELSE IF "generateAuthProof" \in faults
        THEN AuthOutcome(5, <<"User authentication failed", "generateAuthProof failed">>, <<>>)
    ELSE IF "authMethodExists" \in faults \/ authMethodExists = <<FALSE>>
        THEN AuthOutcome(6, InnerError, <<>>)
    ELSE IF "submitResponse" \in faults
        THEN AuthOutcome(7, InnerError, <<>>)
    ELSE IF "authTx.wait" \in faults
        THEN AuthOutcome(8, InnerError, <<>>)
    ELSE IF "getIdByAddress" \in faults \/ idReads[2] = 0
        THEN AuthOutcome(9, InnerError, <<>>)
    ELSE AuthOutcome(9, <<>>, <<userDID[2]>>)
C30_TotalPagesFromPageOne ==
    Drained
        => /\ (totalPages = <<>> \/ totalPages[1] <= 1)
                => /\ Len(requests) = 1
                   /\ reviews = responses[1]
                   /\ pagedTotalPages = <<>>
           /\ (totalPages # <<>> /\ totalPages[1] > 1) => Len(requests) = totalPages[1]
C30_Witness ==
    /\ Drained
    /\ totalPages = <<2>>
    /\ pagedTotalPages = <<MaxPages + 1>>
    /\ Len(requests) = 2
    /\ Len(responses) = 2

\* the review has no field descriptor of that name
LacksField(r, n) == \A i \in 1..Len(r.fields) : r.fields[i].name # n
\* the reviews without a stars field, and those without a comment field
NoStars == {i \in 1..Len(reviews) : LacksField(reviews[i], "stars")}
NoComment == {i \in 1..Len(reviews) : LacksField(reviews[i], "comment")}
\* C31: a finished list-reviews run whose fetched reviews include one without a
\* stars field, or one without a comment field, has ended with exit code 1.
\* With a stars field missing nothing was printed, so the review was not
\* counted as zero stars; with only a comment field missing the summary counts
\* every review and the printed lines stop at the first such review, which
\* was not skipped.
C31_MissingFieldIsFatal ==
    (script = "list" /\ pc \in {"exit0", "exit1"} /\ NoStars \cup NoComment # {})
        => /\ pc = "exit1"
           /\ error # <<>>
           /\ NoStars # {} => output = <<>>
           /\ (NoStars = {} /\ output # <<>>)
                => LET k == CHOOSE i \in NoComment : \A j \in NoComment : i <= j
                       lines == output[1].lines
                   IN /\ output[1].summary.count = Len(reviews)
                      /\ Len(lines) = k
                      /\ lines[k].comment = <<>>
                      /\ \A i \in 1..k : lines[i].fromDid = reviews[i].fromDid
C31_Witness ==
    /\ Drained
    /\ pc = "exit1"
    /\ error = <<"TypeError">>
    /\ NoStars = {}
    /\ NoComment = {2}
    /\ Len(reviews) = 3
    /\ output # <<>>
    /\ Len(output[1].lines) = 2

====
